---- MODULE Spec2Model ----
(***************************************************************************)
(* Model of package localcopy (src/localcopy.go): a local copy of one      *)
(* HTTP resource, kept at one local path.                                  *)
(*                                                                         *)
(* The environment is the remote server, the local clock and the file     *)
(* system entry at the local path.  The server answers every request by    *)
(* itself: a request fails or succeeds, a HEAD response carries any        *)
(* Last-Modified header, a GET response any body.  Every exported function *)
(*  is a sequence of steps of a calling      *)
(* process; each step is one blocking call of the code (an HTTP request,   *)
(* a file system call, one write of io.Copy) together with the local       *)
(* computation that follows it up to the next blocking call.               *)
(*                                                                         *)
(* Time is counted in ticks.  The Last-Modified header carries whole       *)
(* seconds, a file's modification time is finer: TicksPerSec ticks make a  *)
(* second.  The clock is read where the file system stamps a file; it      *)
(* never runs backwards.                                                   *)
(***************************************************************************)
EXTENDS Integers, Sequences, FiniteSets

\* ------------------------------------------------------------------ bounds
\* longest response body / file content, in bytes
MaxLen == 2
\* latest second a Last-Modified header names
MaxSec == 1

\* resolution of a file's modification time against the header's seconds
TicksPerSec == 2
MaxTime == MaxSec * TicksPerSec + 1

Procs == {1, 2}
\* the callers of the sequential specification: one
SeqProcs == {1}

\* Two bodies of every length; byte 0 is what a hole of a sparse file reads as.
Body(n, v) == [i \in 1..n |-> ((i + v) % 2) + 1]
Bodies == {Body(n, v) : n \in 0..MaxLen, v \in 1..2}

Ops == {"LoadLocal", "LoadRemote", "Download", "NeedsUpdate", "Update"}

VARIABLES
    now,        \* latest reading of the local clock, in ticks
    file,       \* the local path: [exists, bytes, mtime]
    dirs,       \* whether the parent directories of the local path exist
    pc,         \* position of each caller
    op,         \* the exported function each caller is in, or was in last
    open,       \* response bodies and files each caller holds open
    hdr,        \* Last-Modified header of the caller's HEAD response
    resp,       \* response body of the caller's GET: [body, pos]
    off,        \* write offset of the caller's open local file
    lastModified, \* NeedsUpdate's local variable
    st,         \* what os.Stat gave the caller's NeedsUpdate: [err, mtime]
    nu,         \* what the caller's NeedsUpdate returned: [b, err]
    dlerr,      \* what the caller's Download returned
    gets,       \* GET requests the caller's call has issued
    ret,        \* what the caller's call returned: [b, err, val]
    prev,       \* the Update before the caller's current Update, if it succeeded
    lastTrunc,  \* caller whose os.Create ran most recently (0: none)
    overlap     \* whether a caller wrote to the file after another caller's os.Create

vars == <<now, file, dirs, pc, op, open, hdr, resp, off, lastModified, st,
          nu, dlerr, gets, ret, prev, lastTrunc, overlap>>

fsVars == <<now, file, dirs, lastTrunc, overlap>>
callVars == <<op, prev>>

\* ---------------------------------------------------------- HTTP header
\* response.Header[httpLastModified]: absent, present with no value, or
\* present with values; a value is an RFC1123 date or something else.
HeaderDate(s) == [present |-> TRUE, vals |-> <<[wellformed |-> TRUE, sec |-> s]>>]
HeaderGarbage == [present |-> TRUE, vals |-> <<[wellformed |-> FALSE, sec |-> 0]>>]
HeaderEmpty == [present |-> TRUE, vals |-> <<>>]
HeaderAbsent == [present |-> FALSE, vals |-> <<>>]
Headers == {HeaderAbsent, HeaderEmpty, HeaderGarbage} \cup {HeaderDate(s) : s \in 0..MaxSec}
\* no HEAD response yet
NoResponse == [present |-> FALSE, vals |-> <<[wellformed |-> FALSE, sec |-> 0]>>]

\* time.Parse(httpTimeFormat, v): whole seconds, as an instant in ticks
ParseTime(v) ==
    IF v.wellformed THEN [err |-> FALSE, t |-> v.sec * TicksPerSec]
    ELSE [err |-> TRUE, t |-> 0]

\* a comparison that takes equal instants for "after"
AfterOrEqual(t, u) == t >= u

\* time.Time.After
After(t, u) == t > u

\* a header handling that takes a missing header for the zero time
LastModifiedOfLenient(h) ==
    IF h.present
    THEN IF Len(h.vals) = 0
         THEN [err |-> "emptyhdr", t |-> 0]
         ELSE IF ParseTime(h.vals[1]).err
              THEN [err |-> "parse", t |-> 0]
              ELSE [err |-> "nil", t |-> ParseTime(h.vals[1]).t]
    ELSE [err |-> "nil", t |-> 0]

\* The header handling of NeedsUpdate: the error it returns, or "nil" and
\* the parsed instant.
LastModifiedOf(h) ==
    IF h.present
    THEN IF Len(h.vals) = 0
         THEN [err |-> "emptyhdr", t |-> 0]
         ELSE IF ParseTime(h.vals[1]).err
              THEN [err |-> "parse", t |-> 0]
              ELSE [err |-> "nil", t |-> ParseTime(h.vals[1]).t]
    ELSE [err |-> "nohdr", t |-> 0]

\* ---------------------------------------------------------- file system
NoFile == [exists |-> FALSE, bytes |-> <<>>, mtime |-> 0]

\* an open that creates the file but keeps what an existing file holds
CreateNoTrunc(f, t) == [exists |-> TRUE, bytes |-> f.bytes, mtime |-> t]

\* os.Create: O_RDWR|O_CREATE|O_TRUNC
Create(f, t) == [exists |-> TRUE, bytes |-> <<>>, mtime |-> t]

Max(a, b) == IF a > b THEN a ELSE b

\* write(2) of data at offset o of a file opened without O_APPEND; the gap
\* between the end of the file and o reads as zeros.
WriteAt(f, o, data, t) ==
    [exists |-> TRUE,
     bytes |-> [i \in 1..Max(Len(f.bytes), o + Len(data)) |->
                  IF i > o /\ i <= o + Len(data) THEN data[i - o]
                  ELSE IF i <= Len(f.bytes) THEN f.bytes[i] ELSE 0],
     mtime |-> t]

\* ------------------------------------------------------------- results
NoResult == [b |-> FALSE, err |-> "unset"]
NoStat == [err |-> "unset", mtime |-> 0]
NoReturn == [b |-> FALSE, err |-> "unset", val |-> <<>>]
NoCall == [valid |-> FALSE, gets |-> 0, lm |-> 0, body |-> <<>>, now |-> 0]

\* a return value whose boolean tells whether the download succeeded
UpdateResultSuccess(n, dl) ==
    IF n.err # "nil" THEN [b |-> FALSE, err |-> n.err]
    ELSE IF ~n.b THEN [b |-> FALSE, err |-> "nil"]
    ELSE [b |-> dl = "nil", err |-> dl]

\* Update's return value from NeedsUpdate's result and Download's error
UpdateResult(n, dl) ==
    IF n.err # "nil" THEN [b |-> FALSE, err |-> n.err]
    ELSE IF ~n.b THEN [b |-> FALSE, err |-> "nil"]
    ELSE [b |-> TRUE, err |-> dl]

\* The caller's call returns (b, err) / (val, err).
Finish(p, b, err, val) ==
    /\ ret' = [ret EXCEPT ![p] = [b |-> b, err |-> err, val |-> val]]
    /\ pc' = [pc EXCEPT ![p] = "idle"]
    /\ UNCHANGED callVars

Goto(p, l) ==
    /\ pc' = [pc EXCEPT ![p] = l]
    /\ UNCHANGED <<callVars, ret>>

\* -------------------------------------------------------------- callers
FirstStep(o) ==
    CASE o = "LoadLocal" -> "ll_open"
      [] o = "LoadRemote" -> "lr_get"
      [] o = "Download" -> "dl_get"
      [] o = "NeedsUpdate" -> "nu_head"
      [] o = "Update" -> "nu_head"

\* A caller that is in no call calls o.
Call(p, o) ==
    /\ pc[p] = "idle"
    /\ prev' = [prev EXCEPT ![p] =
                  IF o = "Update" /\ op[p] = "Update" /\ ret[p].err = "nil"
                  THEN [valid |-> TRUE, gets |-> gets[p], lm |-> lastModified[p],
                        body |-> resp[p].body, now |-> now]
                  ELSE NoCall]
    /\ op' = [op EXCEPT ![p] = o]
    /\ pc' = [pc EXCEPT ![p] = FirstStep(o)]
    /\ gets' = [gets EXCEPT ![p] = 0]
    /\ ret' = [ret EXCEPT ![p] = NoReturn]
    /\ nu' = [nu EXCEPT ![p] = NoResult]
    /\ dlerr' = [dlerr EXCEPT ![p] = "unset"]
    /\ hdr' = [hdr EXCEPT ![p] = NoResponse]
    /\ resp' = [resp EXCEPT ![p] = [body |-> <<>>, pos |-> 0]]
    /\ off' = [off EXCEPT ![p] = 0]
    /\ lastModified' = [lastModified EXCEPT ![p] = 0]
    /\ st' = [st EXCEPT ![p] = NoStat]
    /\ UNCHANGED <<fsVars, open>>

\* ---------------------------------------------------------- NeedsUpdate
\* NeedsUpdate returns (b, err): to its caller, or into Update.
NuExit(p, b, err) ==
    /\ nu' = [nu EXCEPT ![p] = [b |-> b, err |-> err]]
    /\ IF op[p] = "NeedsUpdate" THEN Finish(p, b, err, <<>>) ELSE Goto(p, "up_check")

\* httpClient.Head and the header checks.  The response body is never closed.
NeedsUpdateHead(p) ==
    /\ pc[p] = "nu_head"
    /\ \/ \E h \in Headers :
            /\ hdr' = [hdr EXCEPT ![p] = h]
            /\ open' = [open EXCEPT ![p] = @ \cup {"headBody"}]
            /\ IF LastModifiedOf(h).err # "nil"
               THEN /\ NuExit(p, FALSE, LastModifiedOf(h).err)
                    /\ UNCHANGED lastModified
               ELSE /\ lastModified' = [lastModified EXCEPT ![p] = LastModifiedOf(h).t]
                    /\ Goto(p, "nu_stat")
                    /\ UNCHANGED nu
       \/ /\ NuExit(p, FALSE, "head")
          /\ UNCHANGED <<open, hdr, lastModified>>
    /\ UNCHANGED <<fsVars, resp, off, st, dlerr, gets>>

\* os.Stat: ok is whether the path can be examined at all
Stat(f, ok) ==
    IF ~ok THEN [err |-> "other", mtime |-> 0]
    ELSE IF f.exists THEN [err |-> "nil", mtime |-> f.mtime]
    ELSE [err |-> "notexist", mtime |-> 0]

\* a decision that ranks the local file's time after the remote's
NeedsUpdateDecisionReversed(lm, s) ==
    IF s.err = "notexist" THEN [b |-> TRUE, err |-> "nil"]
    ELSE IF s.err # "nil" THEN [b |-> FALSE, err |-> "stat"]
    ELSE [b |-> After(s.mtime, lm), err |-> "nil"]

\* a decision that takes a missing file for a file of the zero time
NeedsUpdateDecisionZeroTime(lm, s) ==
    IF s.err = "notexist" THEN [b |-> After(lm, 0), err |-> "nil"]
    ELSE IF s.err # "nil" THEN [b |-> FALSE, err |-> "stat"]
    ELSE [b |-> After(lm, s.mtime), err |-> "nil"]

\* what NeedsUpdate returns once the header is parsed and the path examined
NeedsUpdateDecision(lm, s) ==
    IF s.err = "notexist" THEN [b |-> TRUE, err |-> "nil"]
    ELSE IF s.err # "nil" THEN [b |-> FALSE, err |-> "stat"]
    ELSE [b |-> After(lm, s.mtime), err |-> "nil"]

\* os.Stat and the comparison, leaving f as the entry at the local path
NeedsUpdateStatWith(p, f) ==
    /\ pc[p] = "nu_stat"
    /\ \E ok \in BOOLEAN :
         /\ st' = [st EXCEPT ![p] = Stat(file, ok)]
         /\ NuExit(p, NeedsUpdateDecision(lastModified[p], Stat(file, ok)).b,
                      NeedsUpdateDecision(lastModified[p], Stat(file, ok)).err)
    /\ file' = f
    /\ UNCHANGED <<now, dirs, lastTrunc, overlap, open, hdr, resp, off, lastModified,
                   dlerr, gets>>

\* an examination of the path that creates it
NeedsUpdateStatTouch(p) == NeedsUpdateStatWith(p, Create(file, now))

NeedsUpdateStat(p) == NeedsUpdateStatWith(p, file)

\* --------------------------------------------------------------- Update
\* Update after NeedsUpdate has returned
UpdateCheck(p) ==
    /\ pc[p] = "up_check"
    /\ IF nu[p].err # "nil" \/ ~nu[p].b
       THEN Finish(p, UpdateResult(nu[p], "unset").b, UpdateResult(nu[p], "unset").err, <<>>)
       ELSE Goto(p, "dl_get")
    /\ UNCHANGED <<fsVars, open, hdr, resp, off, lastModified, st, nu, dlerr, gets>>

\* ------------------------------------------------------------- Download
\* Download returns err: to its caller, or as Update's result.
DlExit(p, err) ==
    /\ dlerr' = [dlerr EXCEPT ![p] = err]
    /\ IF op[p] = "Download"
       THEN Finish(p, FALSE, err, <<>>)
       ELSE Finish(p, UpdateResult(nu[p], err).b, UpdateResult(nu[p], err).err, <<>>)

\* httpClient.Get, leaving d as the existence of the parent directories
DownloadGetWith(p, d) ==
    /\ pc[p] = "dl_get"
    /\ gets' = [gets EXCEPT ![p] = @ + 1]
    /\ \/ \E b \in Bodies :
            /\ resp' = [resp EXCEPT ![p] = [body |-> b, pos |-> 0]]
            /\ open' = [open EXCEPT ![p] = @ \cup {"getBody"}]
            /\ Goto(p, "dl_mkdir")
            /\ UNCHANGED dlerr
       \/ /\ DlExit(p, "get")
          /\ UNCHANGED <<resp, open>>
    /\ dirs' = d
    /\ UNCHANGED <<now, file, lastTrunc, overlap, hdr, off, lastModified, st, nu>>

\* a Download that makes the directories before it requests the resource
DownloadGetMkdirFirst(p) == DownloadGetWith(p, TRUE)

DownloadGet(p) == DownloadGetWith(p, dirs)

\* os.MkdirAll; its error is dropped
DownloadMkdirAll(p) ==
    /\ pc[p] = "dl_mkdir"
    /\ \E ok \in BOOLEAN : dirs' = (dirs \/ ok)
    /\ Goto(p, "dl_create")
    /\ UNCHANGED <<now, file, lastTrunc, overlap, open, hdr, resp, off, lastModified, st,
                   nu, dlerr, gets>>

\* os.Create; on failure the deferred response.Body.Close runs
DownloadCreate(p) ==
    /\ pc[p] = "dl_create"
    /\ \E ok \in BOOLEAN :
         IF dirs /\ ok
         THEN /\ \E t \in now..MaxTime :
                   /\ now' = t
                   /\ file' = Create(file, t)
              /\ lastTrunc' = p
              /\ open' = [open EXCEPT ![p] = @ \cup {"file"}]
              /\ off' = [off EXCEPT ![p] = 0]
              /\ Goto(p, "dl_copy")
              /\ UNCHANGED dlerr
         ELSE /\ DlExit(p, "create")
              /\ open' = [open EXCEPT ![p] = @ \ {"getBody"}]
              /\ UNCHANGED <<now, file, lastTrunc, off>>
    /\ UNCHANGED <<dirs, overlap, hdr, resp, lastModified, st, nu, gets>>

\* a copy that stops after its first write
CopyDoneEarly(r) == r.pos >= 1 \/ Len(r.body) = 0

\* io.Copy has read the whole body
CopyDone(r) == r.pos = Len(r.body)

\* io.Copy: one successful read and write, the end of the body, or a failure;
\* on return the deferred localFile.Close and response.Body.Close run
DownloadCopy(p) ==
    /\ pc[p] = "dl_copy"
    /\ \/ /\ ~CopyDone(resp[p])
          /\ \E k \in 1..(Len(resp[p].body) - resp[p].pos), t \in now..MaxTime :
               /\ now' = t
               /\ file' = WriteAt(file, off[p],
                                  SubSeq(resp[p].body, resp[p].pos + 1, resp[p].pos + k), t)
               /\ off' = [off EXCEPT ![p] = @ + k]
               /\ resp' = [resp EXCEPT ![p].pos = @ + k]
          /\ overlap' = (overlap \/ lastTrunc # p)
          /\ Goto(p, "dl_copy")
          /\ UNCHANGED <<open, dlerr>>
       \/ /\ CopyDone(resp[p])
          /\ DlExit(p, "nil")
          /\ open' = [open EXCEPT ![p] = @ \ {"file", "getBody"}]
          /\ UNCHANGED <<now, file, overlap, off, resp>>
       \/ /\ DlExit(p, "copy")
          /\ open' = [open EXCEPT ![p] = @ \ {"file", "getBody"}]
          /\ UNCHANGED <<now, file, overlap, off, resp>>
    /\ UNCHANGED <<dirs, lastTrunc, hdr, lastModified, st, nu, gets>>

\* ------------------------------------------------- LoadLocal, LoadRemote
\* os.Open
LoadLocalOpen(p) ==
    /\ pc[p] = "ll_open"
    /\ \E ok \in BOOLEAN :
         IF file.exists /\ ok
         THEN /\ open' = [open EXCEPT ![p] = @ \cup {"file"}]
              /\ Goto(p, "ll_read")
         ELSE /\ Finish(p, FALSE, "open", <<>>)
              /\ UNCHANGED open
    /\ UNCHANGED <<fsVars, hdr, resp, off, lastModified, st, nu, dlerr, gets>>

\* read(in) and the deferred file.Close
LoadLocalRead(p) ==
    /\ pc[p] = "ll_read"
    /\ \E ok \in BOOLEAN :
         IF ok THEN Finish(p, FALSE, "nil", file.bytes) ELSE Finish(p, FALSE, "read", <<>>)
    /\ open' = [open EXCEPT ![p] = @ \ {"file"}]
    /\ UNCHANGED <<fsVars, hdr, resp, off, lastModified, st, nu, dlerr, gets>>

\* httpClient.Get
LoadRemoteGet(p) ==
    /\ pc[p] = "lr_get"
    /\ gets' = [gets EXCEPT ![p] = @ + 1]
    /\ \/ \E b \in Bodies :
            /\ resp' = [resp EXCEPT ![p] = [body |-> b, pos |-> 0]]
            /\ open' = [open EXCEPT ![p] = @ \cup {"getBody"}]
            /\ Goto(p, "lr_read")
       \/ /\ Finish(p, FALSE, "get", <<>>)
          /\ UNCHANGED <<resp, open>>
    /\ UNCHANGED <<fsVars, hdr, off, lastModified, st, nu, dlerr>>

\* read(in) and the deferred resp.Body.Close
LoadRemoteRead(p) ==
    /\ pc[p] = "lr_read"
    /\ \E ok \in BOOLEAN :
         IF ok THEN Finish(p, FALSE, "nil", resp[p].body) ELSE Finish(p, FALSE, "read", <<>>)
    /\ open' = [open EXCEPT ![p] = @ \ {"getBody"}]
    /\ UNCHANGED <<fsVars, hdr, resp, off, lastModified, st, nu, dlerr, gets>>

\* ------------------------------------------------------- specifications
Init ==
    /\ now \in 0..MaxTime
    /\ file \in {NoFile} \cup [exists : {TRUE}, bytes : Bodies, mtime : 0..MaxTime]
    /\ dirs \in BOOLEAN
    /\ file.exists => dirs
    /\ pc = [p \in Procs |-> "idle"]
    /\ op = [p \in Procs |-> "none"]
    /\ open = [p \in Procs |-> {}]
    /\ hdr = [p \in Procs |-> NoResponse]
    /\ resp = [p \in Procs |-> [body |-> <<>>, pos |-> 0]]
    /\ off = [p \in Procs |-> 0]
    /\ lastModified = [p \in Procs |-> 0]
    /\ st = [p \in Procs |-> NoStat]
    /\ nu = [p \in Procs |-> NoResult]
    /\ dlerr = [p \in Procs |-> "unset"]
    /\ gets = [p \in Procs |-> 0]
    /\ ret = [p \in Procs |-> NoReturn]
    /\ prev = [p \in Procs |-> NoCall]
    /\ lastTrunc = 0
    /\ overlap = FALSE

Step(p) ==
    \/ \E o \in Ops : Call(p, o)
    \/ LoadLocalOpen(p)
    \/ LoadLocalRead(p)
    \/ LoadRemoteGet(p)
    \/ LoadRemoteRead(p)
    \/ NeedsUpdateHead(p)
    \/ NeedsUpdateStat(p)
    \/ UpdateCheck(p)
    \/ DownloadGet(p)
    \/ DownloadMkdirAll(p)
    \/ DownloadCreate(p)
    \/ DownloadCopy(p)

\* one caller, one call after the other
Next == \E p \in SeqProcs : Step(p)

Spec == Init /\ [][Next]_vars

\* two callers, one Download each, at the same local path
CallDownload(p) ==
    /\ op[p] = "none"
    /\ Call(p, "Download")

NextConc ==
    \E p \in Procs :
        \/ CallDownload(p)
        \/ DownloadGet(p)
        \/ DownloadMkdirAll(p)
        \/ DownloadCreate(p)
        \/ DownloadCopy(p)

SpecConc == Init /\ [][NextConc]_vars

\* ================================================================ claims
\* the caller's call of o has returned
Returned(p, o) == pc[p] = "idle" /\ op[p] = o

\* the caller's NeedsUpdate has returned, to the caller or into Update,
\* and nothing has run since
NuReturned(p) == Returned(p, "NeedsUpdate") \/ pc[p] = "up_check"

\* the caller's HEAD response carried a well-formed Last-Modified value
WellFormed(p) ==
    hdr[p].present /\ Len(hdr[p].vals) > 0 /\ hdr[p].vals[1].wellformed

\* that value, as an instant
RemoteTime(p) == hdr[p].vals[1].sec * TicksPerSec

\* the caller's Download has returned no error
Downloaded(p) ==
    /\ pc[p] = "idle"
    /\ op[p] \in {"Download", "Update"}
    /\ dlerr[p] = "nil"

\* C1: Update returns true exactly when it issued the GET of Download: an
\* error of NeedsUpdate is returned with false and no GET, a false of
\* NeedsUpdate gives (false, nil) and no GET, a true gives true together
\* with what Download returned, error or not.
C1_UpdateBoolIsAttempt ==
    \A p \in SeqProcs :
        Returned(p, "Update") =>
            /\ ret[p].b <=> (gets[p] = 1)
            /\ nu[p].err # "nil" =>
                   ret[p].b = FALSE /\ ret[p].err = nu[p].err /\ gets[p] = 0
            /\ (nu[p].err = "nil" /\ ~nu[p].b) =>
                   ret[p].b = FALSE /\ ret[p].err = "nil" /\ gets[p] = 0
            /\ (nu[p].err = "nil" /\ nu[p].b) =>
                   ret[p].b = TRUE /\ ret[p].err = dlerr[p] /\ dlerr[p] # "unset"
                   /\ gets[p] = 1

\* an Update that returned true with the error of a failed download
C1_Witness ==
    \E p \in SeqProcs :
        Returned(p, "Update") /\ ret[p].b /\ ret[p].err = "copy" /\ gets[p] = 1

\* C2: with a well-formed Last-Modified value R and a local file whose
\* modification time L os.Stat reports, NeedsUpdate returns (true, nil) if
\* R is after L and (false, nil) if R is before or equal to L.
C2_StrictlyAfter ==
    \A p \in SeqProcs :
        (NuReturned(p) /\ WellFormed(p) /\ st[p].err = "nil") =>
            /\ file.exists /\ st[p].mtime = file.mtime
            /\ nu[p].err = "nil"
            /\ nu[p].b <=> (RemoteTime(p) > file.mtime)

\* NeedsUpdate answered false for a file whose time equals the remote time
C2_Witness ==
    \E p \in SeqProcs :
        /\ NuReturned(p) /\ WellFormed(p) /\ st[p].err = "nil"
        /\ RemoteTime(p) = file.mtime
        /\ nu[p] = [b |-> FALSE, err |-> "nil"]

\* C3: when the local path does not exist, NeedsUpdate returns (true, nil)
\* for every well-formed Last-Modified value; a failure of os.Stat other
\* than not-found is returned as an error, with false.
C3_MissingIsStale ==
    \A p \in SeqProcs :
        (NuReturned(p) /\ WellFormed(p)) =>
            /\ st[p].err = "notexist" =>
                   ~file.exists /\ nu[p] = [b |-> TRUE, err |-> "nil"]
            /\ st[p].err = "other" => nu[p] = [b |-> FALSE, err |-> "stat"]
            /\ st[p].err # "unset"

\* NeedsUpdate answered true for a missing file and the earliest remote time
C3_Witness ==
    \E p \in SeqProcs :
        /\ NuReturned(p) /\ WellFormed(p) /\ RemoteTime(p) = 0
        /\ st[p].err = "notexist"
        /\ nu[p] = [b |-> TRUE, err |-> "nil"]

\* C4: when Download returns no error, the local file exists and holds the
\* whole body of the GET response, whatever was at the path before.
C4_FileIsBody ==
    \A p \in SeqProcs :
        Downloaded(p) => file.exists /\ file.bytes = resp[p].body

\* a Download of a body of more than one byte has returned no error
C4_Witness ==
    \E p \in SeqProcs :
        Downloaded(p) /\ Len(resp[p].body) = MaxLen /\ off[p] = MaxLen

\* two Updates in succession, both returning no error, the same
\* Last-Modified value in both HEAD responses
TwoUpdates(p) ==
    /\ Returned(p, "Update")
    /\ prev[p].valid
    /\ ret[p].err = "nil"
    /\ lastModified[p] = prev[p].lm

\* C5 as stated: two Updates in succession against an unchanged resource
\* perform exactly one download, in the first call, and none in the second.
C5_Original ==
    \A p \in SeqProcs :
        (/\ TwoUpdates(p)
         /\ (prev[p].gets = 1 /\ gets[p] = 1) => resp[p].body = prev[p].body)
        => (prev[p].gets = 1 /\ gets[p] = 0)

\* C5 amended: two Updates in succession against an unchanged resource
\* perform at most one download in the first call, and none in the second
\* unless the first call downloaded and the Last-Modified instant is later
\* than the clock reading with which that download last stamped the file.
C5_Amended ==
    \A p \in SeqProcs :
        TwoUpdates(p) =>
            /\ prev[p].gets <= 1
            /\ (prev[p].gets = 1 => prev[p].lm <= prev[p].now) => gets[p] = 0

\* the first Update downloaded, the second did not
C5_Witness ==
    \E p \in SeqProcs :
        /\ TwoUpdates(p)
        /\ prev[p].gets = 1 /\ prev[p].lm <= prev[p].now
        /\ gets[p] = 0 /\ ret[p].b = FALSE

\* the steps of NeedsUpdate and of Update outside Download
CheckSteps == {"nu_head", "nu_stat", "up_check"}

\* C6: no step of NeedsUpdate, on any exit path, changes the local path or
\* its directories; the local path changes only in the steps of Download
\* after its GET; an Update that returns false has issued no GET.
C6_CheckIsReadOnly ==
    [][ /\ \A p \in SeqProcs :
             /\ pc[p] \in CheckSteps =>
                    file' = file /\ dirs' = dirs /\ gets'[p] = gets[p]
             /\ (pc[p] \in CheckSteps /\ pc'[p] = "idle" /\ op[p] = "Update") =>
                    ret'[p].b = FALSE /\ gets'[p] = 0
             /\ (pc'[p] = "idle" /\ op'[p] = "Update" /\ ~ret'[p].b) =>
                    gets'[p] = 0
        /\ (file' # file \/ dirs' # dirs) =>
               \E p \in SeqProcs : pc[p] \in {"dl_mkdir", "dl_create", "dl_copy"}
      ]_vars

\* an Update has returned (false, nil) for an existing local file
C6_Witness ==
    \E p \in SeqProcs :
        /\ Returned(p, "Update") /\ ret[p] = [b |-> FALSE, err |-> "nil", val |-> <<>>]
        /\ st[p].err = "nil" /\ file.exists

\* C7: when the HEAD response has no Last-Modified header, NeedsUpdate
\* returns an error, with false, and has not examined the local path.
C7_MissingHeaderIsError ==
    \A p \in SeqProcs :
        (hdr[p] = HeaderAbsent /\ pc[p] # "nu_head") =>
            /\ nu[p] = [b |-> FALSE, err |-> "nohdr"]
            /\ st[p] = NoStat
            /\ pc[p] \in {"idle", "up_check"}
            /\ Returned(p, "NeedsUpdate") => (~ret[p].b /\ ret[p].err = "nohdr")

\* NeedsUpdate returned the error for an existing local file
C7_Witness ==
    \E p \in SeqProcs :
        /\ Returned(p, "NeedsUpdate") /\ hdr[p] = HeaderAbsent
        /\ file.exists /\ ret[p].err = "nohdr"

\* C8: a caller that is in no call holds no response body and no file open.
C8_AllReleased ==
    \A p \in SeqProcs : pc[p] = "idle" => open[p] = {}

\* both callers' Downloads have returned no error, with different bodies
BothDownloaded ==
    /\ \A p \in Procs : Returned(p, "Download") /\ ret[p].err = "nil"
    /\ resp[1].body # resp[2].body

\* C9 as stated: after two concurrent Downloads of different bodies, both
\* without error, the file holds the whole body of one of them.
C9_Original ==
    BothDownloaded => \E p \in Procs : file.bytes = resp[p].body

\* C9 amended: after two concurrent Downloads of different bodies, both
\* without error, the file holds the whole body of the call whose os.Create
\* ran last when the other call wrote nothing after that os.Create.
C9_Amended ==
    (BothDownloaded /\ ~overlap) =>
        /\ lastTrunc \in Procs
        /\ file.bytes = resp[lastTrunc].body

\* the second caller's os.Create ran while the first had its file open and
\* came after all of the first caller's writes
C9_Witness ==
    /\ BothDownloaded /\ ~overlap
    /\ lastTrunc = 2
    /\ Len(resp[1].body) = MaxLen
    /\ file.bytes = resp[2].body

\* C10: the GET of Download changes nothing at the local path; when it
\* fails, Download returns the error at once; the local path and its
\* directories change only in steps of a Download whose GET has succeeded.
C10_GetFailureTouchesNothing ==
    [][ /\ \A p \in SeqProcs :
             pc[p] = "dl_get" =>
                 /\ file' = file /\ dirs' = dirs
                 /\ \/ pc'[p] = "dl_mkdir" /\ "getBody" \in open'[p]
                    \/ /\ pc'[p] = "idle"
                       /\ dlerr'[p] = "get" /\ ret'[p].err = "get"
                       /\ "getBody" \notin open'[p]
        /\ (file' # file \/ dirs' # dirs) =>
               \E p \in SeqProcs :
                   /\ "getBody" \in open[p]
                   /\ pc[p] \in {"dl_mkdir", "dl_create", "dl_copy"}
      ]_vars

\* a Download has returned the error of its GET, the local file existing
C10_Witness ==
    \E p \in SeqProcs :
        Returned(p, "Download") /\ ret[p].err = "get" /\ file.exists /\ gets[p] = 1

====
